---- MODULE Spec2Model ----
(***************************************************************************)
(* rcir: ranked-choice (instant-runoff) tabulation.                        *)
(*                                                                         *)
(* Poll (src/src/lib.rs:127-185) validates and stores ballots;             *)
(* PollRound::next_round (lib.rs:49-107) tallies first preferences,        *)
(* picks a loser and derives the next round; RoundIterator::next           *)
(* (lib.rs:15-24) drives it.                                               *)
(*                                                                         *)
(* Candidates are opaque values (T: Eq + Hash); references &'a T are       *)
(* modelled by the value itself.  Option<X> is modelled as a sequence:     *)
(* None is <<>> and Some(x) is <<x>>.  The iteration order of a HashMap    *)
(* or HashSet is unspecified in Rust (each HashMap::new() gets its own     *)
(* RandomState), so each iteration is over a nondeterministically chosen   *)
(* ordering of the keys.                                                   *)
(***************************************************************************)
EXTENDS Naturals, Sequences, FiniteSets

\* The values a candidate reference can take.  Poll::new is given any subset.
Universe == {"A", "B", "C"}

\* Largest number of ballots the Poll accepts in the model.
MaxBallots == 2
\* Longest sequence handed to add_ballot in the validation specification.
MaxLen == 3
\* How many times next is called again after it has returned None.
MaxNone == 2

\* The iterators the driver may hold at once.
IterIds == {1, 2}

VARIABLES
    candidates,     \* Poll.candidates    : the registered candidate set
    ballots,        \* Poll.ballots       : Vec<Vec<&T>>
    candidate_map,  \* Poll.candidate_map : HashMap<&T, bool>
    last_add,       \* the last add_ballot call: its argument and its return value
    ok_count,       \* how many add_ballot calls have returned Ok
    iters           \* the RoundIterators created by start_rounds, and what they returned

vars == <<candidates, ballots, candidate_map, last_add, ok_count, iters>>
pollVars == <<candidates, ballots, candidate_map>>

----------------------------------------------------------------------------
\* Helpers

None == <<>>
Some(x) == <<x>>
IsNone(o) == o = <<>>
Unwrap(o) == o[1]

\* All sequences over S of length at most n.
SeqsUpTo(S, n) == UNION {[1..k -> S] : k \in 0..n}

\* The possible iteration orders of a hash container holding the keys S.
Orders(S) == {f \in [1..Cardinality(S) -> S] : \A x \in S : \E i \in DOMAIN f : f[i] = x}

----------------------------------------------------------------------------
\* BallotError and Result<(), BallotError>

Ok == [kind |-> "Ok"]
MissingCandidate(c) == [kind |-> "MissingCandidate", cand |-> c]
DuplicateCandidate(c) == [kind |-> "DuplicateCandidate", cand |-> c]
ExtraCandidate(c) == [kind |-> "ExtraCandidate", cand |-> c]

----------------------------------------------------------------------------
\* Poll

\* Poll::new: every candidate mapped to false, no ballots.
PollNew(cs) ==
    [candidates |-> cs, ballots |-> <<>>, candidate_map |-> [c \in cs |-> FALSE]]

\* hm.get_mut(v): Some(flag) when v is a key, None otherwise.
HmGetMutant(hm, v) == IF v \in DOMAIN hm THEN Some(hm[v]) ELSE Some(FALSE)
HmGet(hm, v) == IF v \in DOMAIN hm THEN Some(hm[v]) ELSE None

\* *available = true
MarkSeenMutant(hm, v) == hm
MarkSeen(hm, v) == IF v \in DOMAIN hm THEN [hm EXCEPT ![v] = TRUE] ELSE hm

RECURSIVE WalkBack(_, _, _)
\* The walk taken from the last entry of the ballot to the first.
WalkBack(hm, ballot, i) ==
    IF i < 1 THEN [err |-> None, hm |-> hm]
    ELSE LET v == ballot[i]
             available == HmGet(hm, v)
         IN IF IsNone(available) THEN [err |-> Some(ExtraCandidate(v)), hm |-> hm]
            ELSE IF Unwrap(available) THEN [err |-> Some(DuplicateCandidate(v)), hm |-> hm]
            ELSE WalkBack(MarkSeen(hm, v), ballot, i - 1)
WalkBallotMutant(hm, ballot, i) == WalkBack(hm, ballot, Len(ballot))

RECURSIVE WalkBallot(_, _, _)
\* The first loop of add_ballot, from entry i of the ballot on: the error it
\* returns early with, or the flags after the walk.
WalkBallot(hm, ballot, i) ==
    IF i > Len(ballot) THEN [err |-> None, hm |-> hm]
    ELSE LET v == ballot[i]
             available == HmGet(hm, v)
         IN IF IsNone(available) THEN [err |-> Some(ExtraCandidate(v)), hm |-> hm]
            ELSE IF Unwrap(available) THEN [err |-> Some(DuplicateCandidate(v)), hm |-> hm]
            ELSE WalkBallot(MarkSeen(hm, v), ballot, i + 1)

\* if !*v, for the entry (k, v) of hm
NotIncludedMutant(hm, k) == hm[k]
NotIncluded(hm, k) == ~hm[k]

RECURSIVE ScanMissing(_, _, _)
\* The second loop of add_ballot over hm in iteration order `order`, from
\* position i on: the first key whose flag is false.
ScanMissing(hm, order, i) ==
    IF i > Len(order) THEN None
    ELSE IF NotIncluded(hm, order[i]) THEN Some(MissingCandidate(order[i]))
    ELSE ScanMissing(hm, order, i + 1)

\* The value add_ballot returns for `ballot` when hm iterates in `order`.
ValidateBallot(map, ballot, order) ==
    LET walk == WalkBallot(map, ballot, 1)
    IN IF ~IsNone(walk.err) THEN Unwrap(walk.err)
       ELSE LET missing == ScanMissing(walk.hm, order, 1)
            IN IF ~IsNone(missing) THEN Unwrap(missing) ELSE Ok

\* self.ballots.push(ballot)
PushBallotMutant(bs, ballot) == <<ballot>> \o bs
PushBallot(bs, ballot) == Append(bs, ballot)

\* The ballots the Poll holds after add_ballot returned `result`.
BallotsAfterMutant(bs, ballot, result) == PushBallot(bs, ballot)
BallotsAfter(bs, ballot, result) ==
    IF result = Ok THEN PushBallot(bs, ballot) ELSE bs

\* add_ballot marking candidate_map itself instead of a clone of it.
AddBallotMutant(ballot) ==
    \E result \in {ValidateBallot(candidate_map, ballot, order) :
                      order \in Orders(DOMAIN candidate_map)} :
        /\ ballots' = BallotsAfter(ballots, ballot, result)
        /\ last_add' = [called |-> TRUE, ballot |-> ballot, result |-> result]
        /\ ok_count' = IF result = Ok THEN ok_count + 1 ELSE ok_count
        /\ candidate_map' = WalkBallot(candidate_map, ballot, 1).hm
        /\ UNCHANGED <<candidates, iters>>

\* Poll::add_ballot.  hm is a clone of candidate_map; candidate_map itself is
\* never written.
AddBallot(ballot) ==
    \E result \in {ValidateBallot(candidate_map, ballot, order) :
                      order \in Orders(DOMAIN candidate_map)} :
        /\ ballots' = BallotsAfter(ballots, ballot, result)
        /\ last_add' = [called |-> TRUE, ballot |-> ballot, result |-> result]
        /\ ok_count' = IF result = Ok THEN ok_count + 1 ELSE ok_count
        /\ UNCHANGED <<candidates, candidate_map, iters>>

\* Poll::generate_ballot: a shuffle of the candidate set.
GenerateBallot == Orders(candidates)

----------------------------------------------------------------------------
\* Initial state and the validation specification

\* An iterator slot before start_rounds.  Beside the RoundIterator (`iter`)
\* a slot records what was observed of it: whether it exists and has
\* panicked, the results next yielded, how often next returned None, and the
\* Poll's ballots and ok_count at the time of start_rounds.
NoIter ==
    [started |-> FALSE, panicked |-> FALSE,
     iter |-> [curr_round |-> [candidates |-> {}, ballots |-> <<>>, last_round |-> 0]],
     yielded |-> <<>>, nones |-> 0, snapshot |-> <<>>, start_oks |-> 0]

NoCall == [called |-> FALSE, ballot |-> <<>>, result |-> Ok]

Init ==
    /\ \E cs \in SUBSET Universe :
          LET poll == PollNew(cs)
          IN /\ candidates = poll.candidates
             /\ ballots = poll.ballots
             /\ candidate_map = poll.candidate_map
    /\ last_add = NoCall
    /\ ok_count = 0
    /\ iters = [i \in IterIds |-> NoIter]

\* The ballot submitter hands add_ballot any sequence of candidate references.
SubmitAny ==
    \E ballot \in SeqsUpTo(Universe, MaxLen) :
        /\ Len(ballots) < MaxBallots
        /\ AddBallot(ballot)

NextValidate == SubmitAny

SpecValidate == Init /\ [][NextValidate]_vars

----------------------------------------------------------------------------
\* PollRound and RoundIterator

\* first_round leaving the last stored ballot out of the round state.
FirstRoundMutant(poll_candidates, poll_ballots) ==
    [curr_round |-> [candidates |-> poll_candidates,
                     ballots |-> SubSeq(poll_ballots, 1, Len(poll_ballots) - 1),
                     last_round |-> 0]]

\* PollRound::first_round: the RoundIterator start_rounds returns, holding a
\* clone of poll.ballots.
FirstRound(poll_candidates, poll_ballots) ==
    [curr_round |-> [candidates |-> poll_candidates,
                     ballots |-> poll_ballots,
                     last_round |-> 0]]

\* ballot.first()
BallotFirstMutant(ballot) == IF Len(ballot) <= 1 THEN None ELSE Some(ballot[1])
BallotFirstLastMutant(ballot) ==
    IF Len(ballot) = 0 THEN None ELSE Some(ballot[Len(ballot)])
BallotFirst(ballot) == IF Len(ballot) = 0 THEN None ELSE Some(ballot[1])

\* *vote_box += 1
CountVoteMutant(results, vote) == [results EXCEPT ![vote] = 1]
CountVote(results, vote) == [results EXCEPT ![vote] = @ + 1]

RECURSIVE TallyBallots(_, _, _)
\* The loop over self.ballots (lines 57-68) from ballot i on: "none" when a
\* ballot has no first entry (return None), "panic" when the first entry is
\* no key of results (unwrap of None), else the tally.
TallyBallots(results, bs, i) ==
    IF i > Len(bs) THEN [tag |-> "done", results |-> results]
    ELSE LET first == BallotFirst(bs[i])
         IN IF IsNone(first) THEN [tag |-> "none", results |-> results]
            ELSE LET vote == Unwrap(first)
                     vote_box == HmGet(results, vote)
                 IN IF IsNone(vote_box) THEN [tag |-> "panic", results |-> results]
                    ELSE TallyBallots(CountVote(results, vote), bs, i + 1)

\* if v < lw
LowerThanMutant(v, lw) == v > lw
LowerThan(v, lw) == v < lw

RECURSIVE LowestLoop(_, _, _, _, _)
\* The loop over results (lines 73-84) in iteration order `order`, from
\* position i on, with the current Option values of lowest and loser.
LowestLoop(results, order, i, lowest, loser) ==
    IF i > Len(order) THEN [lowest |-> lowest, loser |-> loser]
    ELSE LET k == order[i]
             v == results[k]
         IN IF IsNone(lowest) THEN LowestLoop(results, order, i + 1, Some(v), Some(k))
            ELSE IF LowerThan(v, Unwrap(lowest))
                 THEN LowestLoop(results, order, i + 1, Some(v), Some(k))
                 ELSE LowestLoop(results, order, i + 1, lowest, loser)

\* ballot.iter().filter(|&&i| i != loser).map(|&i| i).collect()
FilterLoserMutant(ballot, loser) == ballot
FilterLoser(ballot, loser) == SelectSeq(ballot, LAMBDA c : c # loser)

\* The loop building next_ballots (lines 89-92).
NextBallots(bs, loser) == [j \in DOMAIN bs |-> FilterLoser(bs[j], loser)]

\* self.candidates filtered (line 102).  The Vec holds each candidate once and
\* its order is never observed, so it is kept as a set.
NextCandidatesMutant(cs, loser) == cs
NextCandidates(cs, loser) == {c \in cs : c # loser}

\* PollRound::next_round when results iterates in `order`:
\*   "None"  - return None (line 63);
\*   "Panic" - an unwrap of None, at `line`;
\*   "Some"  - Some((result, next)).
NextRound(round, order) ==
    LET tally == TallyBallots([c \in round.candidates |-> 0], round.ballots, 1)
    IN IF tally.tag = "none" THEN [tag |-> "None"]
       ELSE IF tally.tag = "panic" THEN [tag |-> "Panic", line |-> 66]
       ELSE LET low == LowestLoop(tally.results, order, 1, None, None)
            IN IF IsNone(low.loser) THEN [tag |-> "Panic", line |-> 86]
               ELSE LET loser == Unwrap(low.loser)
                        lowest == Unwrap(low.lowest)
                    IN [tag |-> "Some",
                        result |-> [loser |-> loser,
                                    votes |-> lowest,
                                    results |-> tally.results,
                                    round |-> round.last_round + 1],
                        next |-> [candidates |-> NextCandidates(round.candidates, loser),
                                  ballots |-> NextBallots(round.ballots, loser),
                                  last_round |-> round.last_round + 1]]

\* next storing a round without ballots when next_round returned None.
IterAfterMutant(slot, r) ==
    IF r.tag = "Some"
    THEN [slot EXCEPT !.iter.curr_round = r.next, !.yielded = Append(@, r.result)]
    ELSE IF r.tag = "None"
    THEN [slot EXCEPT !.nones = @ + 1, !.iter.curr_round.ballots = <<>>]
    ELSE [slot EXCEPT !.panicked = TRUE]

\* The slot after RoundIterator::next got `r` from next_round: on Some the
\* round is replaced and the result returned, on None nothing is written.
IterAfter(slot, r) ==
    IF r.tag = "Some"
    THEN [slot EXCEPT !.iter.curr_round = r.next, !.yielded = Append(@, r.result)]
    ELSE IF r.tag = "None"
    THEN [slot EXCEPT !.nones = @ + 1]
    ELSE [slot EXCEPT !.panicked = TRUE]

\* next borrows the iterator only: the Poll is out of its reach.
PollAfterNextMutant(i) ==
    /\ ballots' = iters'[i].iter.curr_round.ballots
    /\ UNCHANGED <<candidates, candidate_map>>
PollAfterNext(i) == UNCHANGED <<candidates, ballots, candidate_map>>

\* Poll::start_rounds for iterator slot i.
StartRounds(i) ==
    /\ ~iters[i].started
    /\ iters' = [iters EXCEPT ![i] =
                    [started |-> TRUE, panicked |-> FALSE,
                     iter |-> FirstRound(candidates, ballots),
                     yielded |-> <<>>, nones |-> 0,
                     snapshot |-> ballots, start_oks |-> ok_count]]
    /\ UNCHANGED <<candidates, ballots, candidate_map, last_add, ok_count>>

\* RoundIterator::next on iterator i.  A panic unwinds through the caller, so
\* a panicked iterator is not called again.
IterNext(i) ==
    /\ iters[i].started
    /\ ~iters[i].panicked
    /\ \E r \in {NextRound(iters[i].iter.curr_round, order) :
                  order \in Orders(iters[i].iter.curr_round.candidates)} :
          iters' = [iters EXCEPT ![i] = IterAfter(@, r)]
    /\ PollAfterNext(i)
    /\ UNCHANGED <<last_add, ok_count>>

\* The driver's loop (main.rs:17-20): generate_ballot, then add_ballot.
SubmitGenerated ==
    \E ballot \in GenerateBallot :
        /\ Len(ballots) < MaxBallots
        /\ AddBallot(ballot)

\* One iterator, called up to MaxNone times more once it has returned None.
Next ==
    \/ SubmitGenerated
    \/ StartRounds(1)
    \/ (iters[1].nones < MaxNone /\ IterNext(1))

Spec == Init /\ [][Next]_vars

\* Two iterators over the same Poll, interleaved with each other and with
\* add_ballot, each called until it returns None.  The slots are
\* interchangeable, so slot 2 is taken after slot 1.
NextTwo ==
    \/ SubmitGenerated
    \/ StartRounds(1)
    \/ (iters[1].started /\ StartRounds(2))
    \/ \E i \in IterIds : (iters[i].nones = 0 /\ IterNext(i))

SpecTwo == Init /\ [][NextTwo]_vars

----------------------------------------------------------------------------
\* Vocabulary of the properties

\* The entries of a sequence.
Range(seq) == {seq[j] : j \in DOMAIN seq}

\* seq holds every member of S exactly once and nothing else.
IsPermutationOf(seq, S) == Len(seq) = Cardinality(S) /\ Range(seq) = S

RECURSIVE SumOver(_, _)
\* Sum of the values of the map f over the keys S.
SumOver(f, S) ==
    IF S = {} THEN 0
    ELSE LET x == CHOOSE y \in S : TRUE IN f[x] + SumOver(f, S \ {x})

\* How many next calls slot sl has seen return (or panic).
Calls(sl) == Len(sl.yielded) + sl.nones + (IF sl.panicked THEN 1 ELSE 0)

\* The losers of the first k results of slot sl.
LosersBefore(sl, k) == {sl.yielded[j].loser : j \in 1..(k - 1)}

\* The slots on which next has returned None.
Consumed == {i \in IterIds : iters[i].started /\ iters[i].nones > 0}

----------------------------------------------------------------------------
\* C1: for a Poll with N >= 1 candidates and any number of accepted ballots,
\* zero included, the first N calls of next each yield a round result and the
\* (N+1)-th call returns None: no call panics, and from the (N+1)-th call on
\* exactly N results have been yielded and every further call returned None.
C1_ExactlyNRoundsThenNone ==
    \A i \in IterIds :
        LET sl == iters[i]
            n == Cardinality(candidates)
        IN (sl.started /\ n >= 1) =>
              /\ ~sl.panicked
              /\ Calls(sl) <= n => Len(sl.yielded) = Calls(sl)
              /\ Calls(sl) > n => (Len(sl.yielded) = n /\ sl.nones = Calls(sl) - n)

\* C2: in every result yielded, the values of the tally map sum to the number
\* of ballots the Poll held when start_rounds was called.
C2_TallyConservation ==
    \A i \in IterIds :
        \A k \in DOMAIN iters[i].yielded :
            LET r == iters[i].yielded[k]
            IN SumOver(r.results, DOMAIN r.results) = Len(iters[i].snapshot)

\* A whole sequence over a snapshot of two ballots that share their first
\* preference, while the Poll has since changed size or not.
C2_Witness ==
    \E i \in Consumed :
        /\ Len(iters[i].snapshot) = 2
        /\ Len(iters[i].yielded) = 3
        /\ \E c \in candidates : iters[i].yielded[1].results[c] = 2

\* C3: in every result yielded, the tally map is over the candidates not
\* eliminated in an earlier round, the loser is one of them, no candidate of
\* the map has a strictly smaller tally than the loser, and votes is the
\* loser's tally.
C3_LoserIsMinimal ==
    \A i \in IterIds :
        \A k \in DOMAIN iters[i].yielded :
            LET r == iters[i].yielded[k]
            IN /\ DOMAIN r.results = candidates \ LosersBefore(iters[i], k)
               /\ r.loser \in DOMAIN r.results
               /\ \A c \in DOMAIN r.results : r.results[c] >= r.results[r.loser]
               /\ r.votes = r.results[r.loser]

\* A round whose loser has strictly fewer votes than every other survivor,
\* after a round in which the lowest tally was tied.
C3_Witness ==
    \E i \in IterIds :
        /\ Len(iters[i].yielded) >= 2
        /\ LET r1 == iters[i].yielded[1]
               r2 == iters[i].yielded[2]
           IN /\ \E c \in DOMAIN r1.results :
                    c # r1.loser /\ r1.results[c] = r1.results[r1.loser]
              /\ Cardinality(DOMAIN r2.results) = 2
              /\ \A c \in DOMAIN r2.results :
                    c # r2.loser => r2.results[c] > r2.results[r2.loser]

----------------------------------------------------------------------------
\* Properties of add_ballot.  In SpecValidate every step is one add_ballot
\* call, whose argument and return value the next state holds in last_add.

\* Some entry of seq is no registered candidate.
HasForeign(seq) == \E j \in DOMAIN seq : seq[j] \notin candidates

\* Entry j of seq already occurred before position j.
RepeatsAt(seq, j) == \E h \in 1..(j - 1) : seq[h] = seq[j]

\* Some entry of seq occurs more than once.
HasRepeat(seq) == \E j \in DOMAIN seq : RepeatsAt(seq, j)

\* C4: add_ballot returns Ok exactly when the ballot is a permutation of the
\* candidate set, and on Ok the ballot list is the old list with the ballot
\* added as its last element.
C4_OkIffPermutationAndAppended ==
    [][LET b == last_add'.ballot
           r == last_add'.result
       IN /\ (r = Ok) <=> IsPermutationOf(b, candidates)
          /\ r = Ok =>
                /\ Len(ballots') = Len(ballots) + 1
                /\ ballots'[Len(ballots')] = b
                /\ \A j \in DOMAIN ballots : ballots'[j] = ballots[j]
      ]_vars

\* A ballot of three candidates accepted after a different one.
C4_Witness ==
    /\ last_add.called /\ last_add.result = Ok
    /\ Cardinality(candidates) = 3
    /\ Len(ballots) = 2
    /\ ballots[1] # ballots[2]
    /\ ballots[2] = last_add.ballot

\* C5 as stated: every sequence with an entry outside the candidate set is
\* rejected with ExtraCandidate, whatever else it holds.
C5_ForeignAlwaysExtra ==
    (last_add.called /\ HasForeign(last_add.ballot)) =>
        last_add.result.kind = "ExtraCandidate"

\* C5 amended: every sequence with an entry outside the candidate set is
\* rejected; with ExtraCandidate(e), e its first foreign entry, when no
\* registered candidate is repeated before e, and with DuplicateCandidate of
\* the first repeated entry otherwise.
C5_ForeignRejected ==
    (last_add.called /\ HasForeign(last_add.ballot)) =>
        LET b == last_add.ballot
            e == CHOOSE j \in DOMAIN b :
                     b[j] \notin candidates /\ \A h \in 1..(j - 1) : b[h] \in candidates
            dups == {j \in 1..(e - 1) : RepeatsAt(b, j)}
        IN IF dups = {}
           THEN last_add.result = ExtraCandidate(b[e])
           ELSE LET d == CHOOSE j \in dups : \A h \in dups : j <= h
                IN last_add.result = DuplicateCandidate(b[d])

\* A foreign entry in last position, after registered ones, reported.
C5_Witness ==
    /\ last_add.called
    /\ Len(last_add.ballot) = 3
    /\ last_add.ballot[1] \in candidates
    /\ last_add.ballot[2] \in candidates
    /\ last_add.ballot[3] \notin candidates
    /\ last_add.result = ExtraCandidate(last_add.ballot[3])

\* C6: a ballot of registered candidates only, one of them more than once, is
\* rejected with DuplicateCandidate(c), c occurring more than once in it,
\* also when it omits registered candidates.
C6_RepeatIsDuplicate ==
    (last_add.called /\ ~HasForeign(last_add.ballot) /\ HasRepeat(last_add.ballot)) =>
        /\ last_add.result.kind = "DuplicateCandidate"
        /\ \E j \in DOMAIN last_add.ballot :
              /\ RepeatsAt(last_add.ballot, j)
              /\ last_add.result.cand = last_add.ballot[j]

\* A repeat in a ballot that also omits a registered candidate.
C6_Witness ==
    /\ last_add.called
    /\ ~HasForeign(last_add.ballot) /\ HasRepeat(last_add.ballot)
    /\ candidates \ Range(last_add.ballot) # {}
    /\ last_add.result.kind = "DuplicateCandidate"

\* C7: a ballot of registered candidates only, none repeated, that omits a
\* registered candidate is rejected with MissingCandidate(c), c a registered
\* candidate that is not in the ballot.
C7_OmissionIsMissing ==
    (/\ last_add.called
     /\ ~HasForeign(last_add.ballot) /\ ~HasRepeat(last_add.ballot)
     /\ candidates \ Range(last_add.ballot) # {}) =>
        /\ last_add.result.kind = "MissingCandidate"
        /\ last_add.result.cand \in candidates \ Range(last_add.ballot)

\* [A, B] against {A, B, C} gives MissingCandidate(C).
C7_Witness ==
    /\ candidates = {"A", "B", "C"}
    /\ last_add.called
    /\ last_add.ballot = <<"A", "B">>
    /\ last_add.result = MissingCandidate("C")

\* C8: an add_ballot call that returns an error leaves the ballot list as it
\* was, and the number of stored ballots is the number of calls that
\* returned Ok.
C8_AllOrNothing ==
    [][/\ last_add'.result # Ok => ballots' = ballots
       /\ Len(ballots') = ok_count'
      ]_vars

\* A ballot rejected at its third entry while a ballot is stored.
C8_Witness ==
    /\ last_add.called
    /\ last_add.result.kind = "DuplicateCandidate"
    /\ Len(last_add.ballot) = 3
    /\ last_add.ballot[1] # last_add.ballot[2]
    /\ Len(ballots) = 1
    /\ ok_count = 1

----------------------------------------------------------------------------
\* Properties of two sequences over the same Poll

\* Both slots were started on the same Poll with no ballot accepted between
\* the two start_rounds calls.
SamePoll == /\ iters[1].started /\ iters[2].started
            /\ iters[1].start_oks = iters[2].start_oks

\* The rounds both sequences have yielded so far.
Common == DOMAIN iters[1].yielded \cap DOMAIN iters[2].yielded

\* The two sequences named the same loser in every round before round k.
SameLosersBefore(k) ==
    \A j \in 1..(k - 1) : iters[1].yielded[j].loser = iters[2].yielded[j].loser

\* Result r has two candidates with the lowest tally.
TiedLowest(r) ==
    \E c \in DOMAIN r.results : c # r.loser /\ r.results[c] = r.results[r.loser]

\* C9 as stated: two sequences started on the same unmodified Poll, holding
\* at least one ballot, are identical round for round.
C9_SequencesIdentical ==
    (SamePoll /\ Len(iters[1].snapshot) >= 1) =>
        \A k \in Common : iters[1].yielded[k] = iters[2].yielded[k]

\* C9 amended: two sequences started on the same unmodified Poll agree in
\* every round up to the first tie they break differently: when the losers
\* of all earlier rounds agree, round k has the same round number, tally map
\* and votes in both, and the same loser unless its lowest tally is tied.
C9_SequencesAgreeUpToTieBreak ==
    SamePoll =>
        \A k \in Common :
            LET r1 == iters[1].yielded[k]
                r2 == iters[2].yielded[k]
            IN SameLosersBefore(k) =>
                  /\ r1.round = r2.round
                  /\ r1.results = r2.results
                  /\ r1.votes = r2.votes
                  /\ ~TiedLowest(r1) => r1.loser = r2.loser

\* Two whole sequences over two ballots and three candidates: a tie broken
\* the same way in round 1, then an untied round.
C9_Witness ==
    /\ SamePoll
    /\ Consumed = IterIds
    /\ Len(iters[1].snapshot) = 2
    /\ Cardinality(candidates) = 3
    /\ iters[1].yielded = iters[2].yielded
    /\ TiedLowest(iters[1].yielded[1])
    /\ ~TiedLowest(iters[1].yielded[2])

\* C10: no step that starts or advances an iterator changes the Poll's
\* candidate set, ballots or candidate_map; the ballots an iterator was
\* started on stay at the head of the Poll's list, in order, and every stored
\* ballot keeps all the candidates.
C10_TabulationReadOnly ==
    [][/\ iters' # iters => UNCHANGED pollVars
       /\ \A i \in IterIds :
             iters'[i].started =>
                /\ Len(iters'[i].snapshot) <= Len(ballots')
                /\ \A j \in DOMAIN iters'[i].snapshot :
                      ballots'[j] = iters'[i].snapshot[j]
       /\ \A j \in DOMAIN ballots' : IsPermutationOf(ballots'[j], candidates')
      ]_vars

\* A sequence over two ballots and three candidates consumed to its end.
C10_Witness ==
    \E i \in Consumed :
        /\ Len(iters[i].yielded) = 3
        /\ Len(iters[i].snapshot) = 2
        /\ ballots = iters[i].snapshot
        /\ iters[i].iter.curr_round.ballots = <<<<>>, <<>>>>

----------------------------------------------------------------------------
\* Properties of the round sequence

\* The losers of all the results slot sl has yielded.
Losers(sl) == {sl.yielded[j].loser : j \in DOMAIN sl.yielded}

\* C11: the k-th result a sequence yields has round number k, and its tally
\* map holds N - k + 1 candidates, N being the number of candidates.
C11_MonotonicShrinkage ==
    \A i \in IterIds :
        \A k \in DOMAIN iters[i].yielded :
            LET r == iters[i].yielded[k]
            IN /\ r.round = k
               /\ Cardinality(DOMAIN r.results) + k = Cardinality(candidates) + 1

\* Three rounds over three candidates and two ballots.
C11_Witness ==
    \E i \in IterIds :
        /\ Cardinality(candidates) = 3
        /\ Len(iters[i].snapshot) = 2
        /\ Len(iters[i].yielded) = 3
        /\ iters[i].yielded[3].round = 3
        /\ Cardinality(DOMAIN iters[i].yielded[3].results) = 1

\* C12: for a Poll with N >= 1 candidates and no ballots, every round yields
\* an all-zero tally with a surviving candidate as loser, and once the
\* candidates are exhausted next returns None: no call panics, and the call
\* after the N-th result returns None.
C12_ZeroBallotsEndNormally ==
    \A i \in IterIds :
        LET sl == iters[i]
            n == Cardinality(candidates)
        IN (sl.started /\ sl.snapshot = <<>> /\ n >= 1) =>
              /\ \A k \in DOMAIN sl.yielded :
                    LET r == sl.yielded[k]
                    IN /\ \A c \in DOMAIN r.results : r.results[c] = 0
                       /\ r.loser \in candidates \ LosersBefore(sl, k)
              /\ ~sl.panicked
              /\ Calls(sl) > n => sl.nones >= 1

\* C13 as stated: when the sequence of a Poll with at least one candidate and
\* one ballot has ended, exactly one candidate was never yielded as loser.
C13_OneCandidateNeverYielded ==
    \A i \in Consumed :
        (candidates # {} /\ Len(iters[i].snapshot) >= 1) =>
            Cardinality(candidates \ Losers(iters[i])) = 1

\* C13 amended: when the sequence of a Poll with at least one candidate and
\* one ballot has ended, every candidate has been yielded as loser, each in a
\* round of its own; the loser of the last round is the only candidate of
\* that round's tally map and holds every ballot: it is the winner.
C13_LastLoserIsWinner ==
    \A i \in Consumed :
        (candidates # {} /\ Len(iters[i].snapshot) >= 1) =>
            LET sl == iters[i]
                last == sl.yielded[Len(sl.yielded)]
            IN /\ Len(sl.yielded) = Cardinality(candidates)
               /\ Losers(sl) = candidates
               /\ DOMAIN last.results = {last.loser}
               /\ last.votes = Len(sl.snapshot)

\* An ended sequence over three candidates and two ballots that disagree on
\* their first preference.
C13_Witness ==
    \E i \in Consumed :
        /\ Cardinality(candidates) = 3
        /\ Len(iters[i].snapshot) = 2
        /\ iters[i].snapshot[1][1] # iters[i].snapshot[2][1]
        /\ Len(iters[i].yielded) = 3
        /\ iters[i].yielded[3].votes = 2

\* The entries of ballot b that are not in the set elim, in b's order.
Without(b, elim) == SelectSeq(b, LAMBDA c : c \notin elim)

\* How many ballots of bs rank c highest among the candidates not in elim.
FirstChoices(bs, elim, c) ==
    Cardinality({j \in DOMAIN bs :
                    \E h \in DOMAIN bs[j] :
                        /\ bs[j][h] = c
                        /\ c \notin elim
                        /\ \A g \in 1..(h - 1) : bs[j][g] \in elim})

\* C14: in every round state of an iterator, each ballot is a permutation of
\* the surviving candidates, and the tally loop over that state never fails
\* to find the first entry of a ballot in results.
C14_Lockstep ==
    \A i \in IterIds :
        iters[i].started =>
            LET round == iters[i].iter.curr_round
            IN /\ \A j \in DOMAIN round.ballots :
                     IsPermutationOf(round.ballots[j], round.candidates)
               /\ TallyBallots([c \in round.candidates |-> 0],
                               round.ballots, 1).tag # "panic"

\* A round state after one elimination, with two ballots that rank the two
\* survivors differently.
C14_Witness ==
    \E i \in IterIds :
        LET round == iters[i].iter.curr_round
        IN /\ iters[i].started
           /\ round.last_round = 1
           /\ Cardinality(round.candidates) = 2
           /\ Len(round.ballots) = 2
           /\ round.ballots[1] # round.ballots[2]

\* C15: in round k the tally of each surviving candidate is the number of
\* ballots of the snapshot that rank it highest among the candidates not
\* eliminated in rounds 1..k-1, and each ballot of the round state is the
\* snapshot's ballot without the eliminated candidates, order kept.
C15_FirstPreferences ==
    \A i \in IterIds :
        LET sl == iters[i]
        IN sl.started =>
              /\ \A k \in DOMAIN sl.yielded :
                    \A c \in DOMAIN sl.yielded[k].results :
                        sl.yielded[k].results[c] =
                            FirstChoices(sl.snapshot, LosersBefore(sl, k), c)
              /\ Len(sl.iter.curr_round.ballots) = Len(sl.snapshot)
              /\ \A j \in DOMAIN sl.snapshot :
                    sl.iter.curr_round.ballots[j] = Without(sl.snapshot[j], Losers(sl))

\* A second round in which a ballot's vote has passed from the eliminated
\* first preference to its second preference.
C15_Witness ==
    \E i \in IterIds :
        /\ Len(iters[i].yielded) >= 2
        /\ iters[i].yielded[1].votes = 1
        /\ \E j \in DOMAIN iters[i].snapshot :
              /\ iters[i].snapshot[j][1] = iters[i].yielded[1].loser
              /\ iters[i].yielded[2].results[iters[i].snapshot[j][2]] = 2

----------------------------------------------------------------------------
\* Error precedence and history independence of add_ballot

\* The positions of seq holding a foreign or an already seen entry.
Offending(seq) ==
    {j \in DOMAIN seq : seq[j] \notin candidates \/ RepeatsAt(seq, j)}

\* The values add_ballot may return for seq, from seq and the candidate set
\* alone.
Outcomes(seq) ==
    IF Offending(seq) # {}
    THEN LET j == CHOOSE g \in Offending(seq) : \A h \in Offending(seq) : g <= h
         IN IF seq[j] \notin candidates
            THEN {ExtraCandidate(seq[j])}
            ELSE {DuplicateCandidate(seq[j])}
    ELSE IF candidates \ Range(seq) # {}
    THEN {MissingCandidate(c) : c \in candidates \ Range(seq)}
    ELSE {Ok}

\* C16: the error add_ballot returns is that of the first offending entry of
\* the ballot, front to back: ExtraCandidate(e) when that entry e is not
\* registered, DuplicateCandidate(e) when e is registered and occurred
\* before; MissingCandidate is returned only when no entry is foreign or
\* repeated.
C16_ErrorPrecedence ==
    last_add.called =>
        LET b == last_add.ballot
            r == last_add.result
        IN /\ Offending(b) # {} =>
                 LET j == CHOOSE g \in Offending(b) : \A h \in Offending(b) : g <= h
                 IN r = IF b[j] \in candidates
                        THEN DuplicateCandidate(b[j])
                        ELSE ExtraCandidate(b[j])
           /\ r.kind = "MissingCandidate" => Offending(b) = {}

\* A repeated entry reported although a foreign entry follows it and a
\* registered candidate is missing.
C16_Witness ==
    /\ last_add.called
    /\ Len(last_add.ballot) = 3
    /\ last_add.ballot[1] = last_add.ballot[2]
    /\ last_add.ballot[3] \notin candidates
    /\ candidates \ Range(last_add.ballot) # {}
    /\ last_add.result = DuplicateCandidate(last_add.ballot[2])

\* C19: every flag of candidate_map is false in every state, and what
\* add_ballot returns for a ballot is decided by the ballot and the candidate
\* set alone, whatever was submitted before.
C19_HistoryIndependent ==
    /\ DOMAIN candidate_map = candidates
    /\ \A c \in candidates : candidate_map[c] = FALSE
    /\ last_add.called => last_add.result \in Outcomes(last_add.ballot)

\* The same ballot of three candidates accepted twice in a row.
C19_Witness ==
    /\ last_add.called /\ last_add.result = Ok
    /\ Cardinality(candidates) = 3
    /\ Len(ballots) = 2
    /\ ballots[1] = ballots[2]
    /\ ok_count = 2

----------------------------------------------------------------------------
\* Isolation, majority and the end of the sequence

\* What slot sl has yielded and holds is what its own snapshot and its own
\* earlier losers determine: tallies summing to the snapshot's size, counted
\* on the snapshot, and round-state ballots filtered from the snapshot.
FromOwnSnapshot(sl) ==
    /\ \A k \in DOMAIN sl.yielded :
          LET r == sl.yielded[k]
          IN /\ SumOver(r.results, DOMAIN r.results) = Len(sl.snapshot)
             /\ \A c \in DOMAIN r.results :
                   r.results[c] = FirstChoices(sl.snapshot, LosersBefore(sl, k), c)
    /\ Len(sl.iter.curr_round.ballots) = Len(sl.snapshot)
    /\ \A j \in DOMAIN sl.snapshot :
          sl.iter.curr_round.ballots[j] = Without(sl.snapshot[j], Losers(sl))

\* C17: with add_ballot and the next calls of two iterators interleaved in
\* any order, a step that stores a ballot changes no iterator, a step of one
\* iterator leaves the other as it was, the snapshot of a started iterator
\* never changes, and everything an iterator yields is determined by its own
\* snapshot.
C17_SnapshotIsolation ==
    [][/\ ballots' # ballots => iters' = iters
       /\ iters'[1] # iters[1] => iters'[2] = iters[2]
       /\ \A i \in IterIds :
             /\ iters[i].started =>
                   /\ iters'[i].started
                   /\ iters'[i].snapshot = iters[i].snapshot
             /\ iters'[i].started => FromOwnSnapshot(iters'[i])
      ]_vars

\* Two iterators with different snapshots, both advanced, after a ballot was
\* accepted between their start_rounds calls.
C17_Witness ==
    /\ iters[1].started /\ iters[2].started
    /\ Len(iters[1].snapshot) = 1
    /\ Len(iters[2].snapshot) = 2
    /\ Len(iters[1].yielded) >= 2
    /\ Len(iters[2].yielded) >= 2
    /\ iters[1].yielded[1].results # iters[2].yielded[1].results

\* The candidates ranked first on more than half of the ballots bs.
Majority(bs) ==
    {c \in candidates : 2 * FirstChoices(bs, {}, c) > Len(bs)}

C20_StaysEnded ==
    [][\A i \in IterIds :
          (iters[i].started /\ Len(iters[i].snapshot) >= 1) =>
              /\ iters'[i].nones > iters[i].nones => iters'[i].iter = iters[i].iter
              /\ iters[i].nones > 0 =>
                    /\ iters'[i].iter = iters[i].iter
                    /\ iters'[i].yielded = iters[i].yielded
                    /\ ~iters'[i].panicked
                    /\ iters'[i] # iters[i] => iters'[i].nones = iters[i].nones + 1
      ]_vars

\* next called twice more after the sequence over two ballots ended.
C20_Witness ==
    \E i \in IterIds :
        /\ iters[i].started
        /\ Len(iters[i].snapshot) = 2
        /\ Len(iters[i].yielded) = 3
        /\ iters[i].nones = 2

====
